---- MODULE Spec2Model ----
(***************************************************************************)
(* Model of app.py: a Streamlit expense form over one SQLite table.        *)
(*                                                                         *)
(* One step of the model is one run of main(), triggered by one user       *)
(* interaction with a widget of the page the previous run rendered.        *)
(* Decimal numbers are fixed-point: quantities and unit values are in      *)
(* hundredths, totals (their product) in ten-thousandths.                  *)
(* Text that the program formats or parses (the date column) is a sequence *)
(* of one-character strings.                                               *)
(***************************************************************************)
EXTENDS Integers, Sequences, FiniteSets, TLC

VARIABLES
    authenticated,    \* st.session_state.authenticated
    username,         \* value of the text_input "Usuário" (login page widget)
    password,         \* value of the text_input "Senha"   (login page widget)
    op,               \* value of the sidebar radio "Navegar para:"
    view,             \* page rendered by the last run: "login", "register", "dashboard"
    message,          \* banner of the last run: "none", "error", "success", "info"
    dash,             \* what the last run of dashboard() produced
    gastos,           \* rows of table gastos, in rowid order
    sqlite_sequence,  \* largest id AUTOINCREMENT has handed out
    log,              \* history: the parameters of every INSERT executed, in order
    trigger           \* the widget interaction that caused the last run

vars == <<authenticated, username, password, op, view, message, dash,
          gastos, sqlite_sequence, log, trigger>>

----------------------------------------------------------------------------
(* Bounds and input domains *)

MaxRecords == 2

UsernameInputs == {"admin", "guest"}
PasswordInputs == {"1234", "senha"}

DateInputs == { [day |-> 1, month |-> 6, year |-> 2024],
                [day |-> 6, month |-> 1, year |-> 2024] }

QuantidadeInputs == {50, 100, 250}
ValorUnitInputs  == {0, 500}

----------------------------------------------------------------------------
(* Generic helpers *)

Range(s) == { s[i] : i \in DOMAIN s }

IsPrefix(s, t) == /\ Len(s) <= Len(t)
                  /\ \A i \in 1..Len(s) : s[i] = t[i]

----------------------------------------------------------------------------
(* Credentials: USERS and check_login *)

\* hashlib.sha256(p.encode()).hexdigest() on the passwords of the model: the
\* digest of each password, distinct from the password itself.
sha256_hexdigest(p) ==
    CASE p = "1234"  -> "03ac674216f3e15c761ee1a5e255f067953623c8b388b4459e13f978d7c846f4"
      [] p = "senha" -> "b7e94be513e96e8c45cd23d162275e5a12ebde9100a425c4ebcdd7fa4dcd897c"
      [] p = "0000"  -> "9af15b336e6a9619928537df30b2e6a2376569fcf9d7e773eccede65606529a0"
      [] p = ""      -> "e3b0c44298fc1c149afbf4c8996fb92427ae41e4649b934ca495991b7852b855"

USERS == [ admin |-> sha256_hexdigest("1234"),
           user  |-> sha256_hexdigest("senha") ]

\* dict.get(key): the value, or None for a missing key.  The result is
\* wrapped so that None is comparable with a digest.
dict_get(d, key) == IF key \in DOMAIN d THEN [none |-> FALSE, value |-> d[key]]
                                        ELSE [none |-> TRUE,  value |-> ""]

\* A plausible slip: USERS.get(username, hashed), which accepts unknown users.
check_login_default(u, p) ==
    LET hashed == sha256_hexdigest(p)
        got    == IF u \in DOMAIN USERS THEN USERS[u] ELSE hashed
    IN  got = hashed

check_login(u, p) ==
    LET hashed == sha256_hexdigest(p)
        got    == dict_get(USERS, u)
    IN  (~got.none) /\ got.value = hashed

----------------------------------------------------------------------------
(* The form's widgets *)

Categorias == << "Matéria-prima", "Mão de obra", "Energia elétrica",
                 "Manutenção de máquinas", "Embalagens", "Transporte",
                 "Despesas administrativas" >>
Unidades   == << "Kg", "und", "mês" >>
FormasPagamento == << "PIX", "Boleto", "Cartão", "Débito automático", "Dinheiro" >>
MenuOptions == << "Registrar Gasto", "Dashboard", "Sair" >>

\* The options the model's user picks among (each selectbox returns one of
\* its options; the first option is its default).
CategoriaInputs == { Categorias[1], Categorias[3] }
UnidadeInputs   == { Unidades[1] }
FormaInputs     == { FormasPagamento[1] }
TextInputs      == { "" }

\* number_input(min_value=m): the widget never yields a value below m.
number_input(min_value, entered) == IF entered < min_value THEN min_value ELSE entered

\* The mutant of total: a sum where the code has a product.
total_sum(quantidade, valor_unit) == quantidade + valor_unit

\* valor_total = quantidade * valor_unit
total(quantidade, valor_unit) == quantidade * valor_unit

\* What the user has put in the form's widgets when the form is submitted.
FormInputs ==
    [ data : DateInputs, categoria : CategoriaInputs, descricao : TextInputs,
      quantidade : QuantidadeInputs, unidade : UnidadeInputs,
      valor_unit : ValorUnitInputs, forma_pagamento : FormaInputs,
      obs : TextInputs ]

----------------------------------------------------------------------------
(* Dates as text: strftime("%d/%m/%Y") and to_datetime(format="%d/%m/%Y") *)

DigitChars == << "0", "1", "2", "3", "4", "5", "6", "7", "8", "9" >>

Digit(n) == DigitChars[n + 1]
DigitValue(c) == (CHOOSE i \in 1..10 : DigitChars[i] = c) - 1

Pad2(n) == << Digit((n \div 10) % 10), Digit(n % 10) >>
Pad4(n) == << Digit((n \div 1000) % 10), Digit((n \div 100) % 10),
              Digit((n \div 10) % 10), Digit(n % 10) >>

\* date.strftime("%d/%m/%Y")
strftime(d) == Pad2(d.day) \o << "/" >> \o Pad2(d.month) \o << "/" >> \o Pad4(d.year)

Num(cs) == LET RECURSIVE N(_, _)
               N(s, acc) == IF s = <<>> THEN acc
                            ELSE N(Tail(s), 10 * acc + DigitValue(Head(s)))
           IN  N(cs, 0)

\* pd.to_datetime(text, format="%d/%m/%Y")
to_datetime(t) == [ day   |-> Num(SubSeq(t, 1, 2)),
                    month |-> Num(SubSeq(t, 4, 5)),
                    year  |-> Num(SubSeq(t, 7, 10)) ]

----------------------------------------------------------------------------
(* Table gastos *)

\* The columns of CREATE TABLE gastos, in order.
TableColumns == << "id", "data", "categoria", "descricao", "quantidade", "unidade",
                   "valor_unitario", "valor_total", "forma_pagamento", "observacoes" >>

MaxId(rows) == IF rows = {} THEN 0
               ELSE CHOOSE m \in { r.id : r \in rows } : \A r \in rows : r.id <= m

\* INTEGER PRIMARY KEY AUTOINCREMENT: one more than the largest id ever used.
next_id(rows, seq) == (IF MaxId(rows) > seq THEN MaxId(rows) ELSE seq) + 1

\* A mutant of insert_row: a submission equal to a stored one is not stored again.
insert_row_dedup(rows, id, params) ==
    IF \E r \in rows : \A c \in DOMAIN params : r[c] = params[c]
    THEN rows
    ELSE rows \cup { [id |-> id] @@ params }

\* A mutant of insert_row: the new row takes the place of the newest one.
insert_row_replace(rows, id, params) ==
    { r \in rows : r.id # MaxId(rows) } \cup { [id |-> id] @@ params }

\* INSERT INTO gastos (data, ..., observacoes) VALUES (:data, ..., :observacoes)
insert_row(rows, id, params) == rows \cup { [id |-> id] @@ params }

\* A full scan of the table yields its rows by ascending rowid.
RECURSIVE by_rowid(_)
by_rowid(rows) ==
    IF rows = {} THEN <<>>
    ELSE LET first == CHOOSE r \in rows : \A q \in rows : r.id <= q.id
         IN  << first >> \o by_rowid(rows \ {first})

\* pd.read_sql("SELECT * FROM gastos", conn): a frame of one row per table
\* row, each a function from column name to value.
read_sql(rows) == by_rowid(rows)

----------------------------------------------------------------------------
(* The data frame operations dashboard() uses *)

columns(df) == IF df = <<>> THEN Range(TableColumns) ELSE DOMAIN df[1]

RECURSIVE SumWhere(_, _, _, _)
SumWhere(df, by, k, col) ==
    IF df = <<>> THEN 0
    ELSE (IF Head(df)[by] = k THEN Head(df)[col] ELSE 0) + SumWhere(Tail(df), by, k, col)

\* df.groupby(by)[col].sum(): KeyError when the frame has no such column.
groupby_sum(df, by, col) ==
    IF by \notin columns(df) \/ col \notin columns(df)
    THEN [exc |-> "KeyError", value |-> <<>>]
    ELSE [exc |-> "none",
          value |-> [k \in { df[i][by] : i \in DOMAIN df } |-> SumWhere(df, by, k, col)]]

\* df[col] = pd.to_datetime(df[col], format="%d/%m/%Y")
parse_column(df, col) ==
    IF col \notin columns(df)
    THEN [exc |-> "KeyError", value |-> <<>>]
    ELSE [exc |-> "none",
          value |-> [i \in DOMAIN df |-> [df[i] EXCEPT ![col] = to_datetime(@)]]]

NoFile == [header |-> <<>>, rows |-> <<>>]

\* df.to_excel(writer, index=False): a header row of the frame's columns and
\* one row of cells per frame row.
to_excel(df) ==
    LET header == SelectSeq(TableColumns, LAMBDA c : c \in columns(df))
    IN  [header |-> header,
         rows   |-> [i \in DOMAIN df |-> [j \in DOMAIN header |-> df[i][header[j]]]]]

NoDash == [elements |-> {}, exc |-> "none", df |-> <<>>,
           gastos_categoria |-> <<>>, gastos_dia |-> <<>>, xlsx |-> NoFile]

\* dashboard(): what one run of it puts on the page, given the table's rows.
\* An exception ends the run; what was rendered before it stays on the page.
\* The frame carries the table's column names (id, data, categoria, ...), and
\* the function asks it for "Categoria", "Valor Total (R$)" and "Data".
dashboard_run(rows) ==
    LET df  == read_sql(rows)
        cat == groupby_sum(df, "Categoria", "Valor Total (R$)")
        dat == parse_column(df, "Data")
        dia == groupby_sum(dat.value, "Data", "Valor Total (R$)")
    IN  IF df = <<>>
        THEN [NoDash EXCEPT !.elements = {"info"}]
        ELSE IF cat.exc # "none"
        THEN [NoDash EXCEPT !.elements = {"dataframe"}, !.exc = cat.exc, !.df = df]
        ELSE IF dat.exc # "none"
        THEN [NoDash EXCEPT !.elements = {"dataframe", "bar_chart"}, !.exc = dat.exc,
                            !.df = df, !.gastos_categoria = cat.value]
        ELSE IF dia.exc # "none"
        THEN [NoDash EXCEPT !.elements = {"dataframe", "bar_chart"}, !.exc = dia.exc,
                            !.df = df, !.gastos_categoria = cat.value]
        ELSE [elements |-> {"dataframe", "bar_chart", "line_chart", "download_button"},
              exc |-> "none", df |-> df,
              gastos_categoria |-> cat.value, gastos_dia |-> dia.value,
              xlsx |-> to_excel(dat.value)]

----------------------------------------------------------------------------
(* The pages.  Each is the state change of one run of the function, as a     *)
(* fragment of the step that runs main().                                    *)

NoTrigger == [widget |-> "load", value |-> ""]

Init ==
    \* a fresh database and a new session, after the first run of main()
    /\ authenticated = FALSE
    /\ username = ""
    /\ password = ""
    /\ op = MenuOptions[1]
    /\ view = "login"
    /\ message = "none"
    /\ dash = NoDash
    /\ gastos = {}
    /\ sqlite_sequence = 0
    /\ log = <<>>
    /\ trigger = NoTrigger

\* A mutant of login_screen: the button logs in whatever check_login says.
login_screen_unchecked(auth, u, p, button) ==
    /\ username' = u
    /\ password' = p
    /\ authenticated' = (auth \/ button)
    /\ message' = "none"
    /\ view' = "login"
    /\ op' = MenuOptions[1]
    /\ dash' = NoDash
    /\ UNCHANGED <<gastos, sqlite_sequence, log>>

\* login_screen(), entered with session_state.authenticated = auth, the two
\* text inputs holding u and p, and the button "Entrar" pressed or not.
login_screen(auth, u, p, button) ==
    /\ username' = u
    /\ password' = p
    /\ IF button
       THEN IF check_login(u, p)
            THEN authenticated' = TRUE /\ message' = "none"
            ELSE authenticated' = auth /\ message' = "error"
       ELSE authenticated' = auth /\ message' = "none"
    /\ view' = "login"
    /\ op' = MenuOptions[1]          \* the radio is not on this page
    /\ dash' = NoDash
    /\ UNCHANGED <<gastos, sqlite_sequence, log>>

\* register_expense(), with the form's widgets holding f and the form
\* submitted or not.
register_expense(submitted, f) ==
    LET quantidade  == number_input(100, f.quantidade)
        valor_unit  == number_input(0, f.valor_unit)
        valor_total == total(quantidade, valor_unit)
        params == [ data            |-> strftime(f.data),
                    categoria       |-> f.categoria,
                    descricao       |-> f.descricao,
                    quantidade      |-> quantidade,
                    unidade         |-> f.unidade,
                    valor_unitario  |-> valor_unit,
                    valor_total     |-> valor_total,
                    forma_pagamento |-> f.forma_pagamento,
                    observacoes     |-> f.obs ]
        id == next_id(gastos, sqlite_sequence)
    IN  /\ IF submitted
           THEN /\ gastos' = insert_row(gastos, id, params)
                /\ sqlite_sequence' = id
                /\ log' = Append(log, params)
                /\ message' = "success"
           ELSE /\ UNCHANGED <<gastos, sqlite_sequence, log>>
                /\ message' = "none"
        /\ view' = "register"
        /\ dash' = NoDash

\* dashboard()
dashboard ==
    /\ dash' = dashboard_run(gastos)
    /\ message' = IF "info" \in dash'.elements THEN "info" ELSE "none"
    /\ view' = "dashboard"
    /\ UNCHANGED <<gastos, sqlite_sequence, log>>

\* A mutant of logout: the flag is cleared but the script is not run again,
\* so the page keeps the sidebar and an empty body.
logout_no_rerun ==
    /\ authenticated' = FALSE
    /\ username' = "" /\ password' = ""
    /\ op' = "Sair"
    /\ view' = "blank"
    /\ message' = "none"
    /\ dash' = NoDash
    /\ UNCHANGED <<gastos, sqlite_sequence, log>>

\* op == "Sair": authenticated = False, then st.experimental_rerun(): the
\* script runs again at once, with no widget pressed, and finds the flag false.
logout == login_screen(FALSE, "", "", FALSE)

\* A mutant of main: the authenticated flag is not consulted.
main_ungated(t, f) ==
    /\ trigger' = t
    /\ LET choice == IF t.widget = "Navegar para:" THEN t.value ELSE op
       IN  /\ username' = "" /\ password' = ""
           /\ UNCHANGED authenticated
           /\ op' = choice
           /\ IF choice = "Dashboard" THEN dashboard
              ELSE register_expense(t.widget = "Salvar gasto", f)

\* main(): one run of the script, caused by the interaction t; f is what the
\* form's widgets hold.  Widgets a run does not render lose their values.
main(t, f) ==
    /\ trigger' = t
    /\ IF ~authenticated
       THEN LET shown == (view = "login" /\ t.widget # "load")
                u == IF t.widget = "Usuário" THEN t.value
                     ELSE IF shown THEN username ELSE ""
                p == IF t.widget = "Senha" THEN t.value
                     ELSE IF shown THEN password ELSE ""
            IN  login_screen(FALSE, u, p, t.widget = "Entrar")
       ELSE LET choice == IF t.widget = "Navegar para:" THEN t.value
                          ELSE IF view \in {"register", "dashboard"} THEN op
                          ELSE MenuOptions[1]
            IN  CASE choice = "Registrar Gasto" ->
                       /\ username' = "" /\ password' = ""
                       /\ UNCHANGED authenticated
                       /\ op' = choice
                       /\ register_expense(t.widget = "Salvar gasto", f)
                  [] choice = "Dashboard" ->
                       /\ username' = "" /\ password' = ""
                       /\ UNCHANGED authenticated
                       /\ op' = choice
                       /\ dashboard
                  [] choice = "Sair" -> logout

----------------------------------------------------------------------------
(* The user's interactions, each of which runs main() once *)

DefaultForm == CHOOSE f \in FormInputs : TRUE

\* typing into "Usuário"
EditUsername(u) ==
    /\ view = "login"
    /\ u # username
    /\ main([widget |-> "Usuário", value |-> u], DefaultForm)

\* typing into "Senha"
EditPassword(p) ==
    /\ view = "login"
    /\ p # password
    /\ main([widget |-> "Senha", value |-> p], DefaultForm)

\* pressing "Entrar"
PressEntrar ==
    /\ view = "login"
    /\ main([widget |-> "Entrar", value |-> ""], DefaultForm)

\* choosing another option of the sidebar radio
SelectOp(o) ==
    /\ view \in {"register", "dashboard"}
    /\ o # op
    /\ main([widget |-> "Navegar para:", value |-> o], DefaultForm)

\* pressing "Salvar gasto" with the form holding f
Submit(f) ==
    /\ view = "register"
    /\ Cardinality(gastos) < MaxRecords
    /\ main([widget |-> "Salvar gasto", value |-> ""], f)

\* opening the page anew: a new session, whose first run finds an empty
\* session_state; the database file is the same
Reload ==
    /\ trigger' = NoTrigger
    /\ login_screen(FALSE, "", "", FALSE)

Next ==
    \/ \E u \in UsernameInputs : EditUsername(u)
    \/ \E p \in PasswordInputs : EditPassword(p)
    \/ PressEntrar
    \/ \E o \in Range(MenuOptions) : SelectOp(o)
    \/ \E f \in FormInputs : Submit(f)
    \/ Reload

Spec == Init /\ [][Next]_vars

----------------------------------------------------------------------------
(* Properties *)

\* The sum of f over a set S.
RECURSIVE SumOver(_, _)
SumOver(S, f) == IF S = {} THEN 0
                 ELSE LET x == CHOOSE x \in S : TRUE
                      IN  f[x] + SumOver(S \ {x}, f)

\* The sum of valor_total over the stored rows that satisfy Keep.
TotalOf(rows, Keep(_)) ==
    LET kept == { r \in rows : Keep(r) }
    IN  SumOver(kept, [r \in kept |-> r.valor_total])

\* The credentials the program is meant to accept.
Accepted(u, p) == u \in DOMAIN USERS /\ sha256_hexdigest(p) = USERS[u]

\* The last run was login_screen() with "Entrar" pressed.
LoginAttempted == trigger.widget = "Entrar" /\ view = "login"

\* The last run was dashboard() over a table that is not empty.
DashboardShown == view = "dashboard" /\ gastos # {}

\* C1: every stored record has valor_total = quantidade * valor_unitario,
\* with quantidade >= 1.00 and valor_unitario >= 0.00 (hundredths).
C1_TotalIsProduct ==
    \A r \in gastos : /\ r.quantidade >= 100
                      /\ r.valor_unitario >= 0
                      /\ r.valor_total = r.quantidade * r.valor_unitario

\* Two records stored, one of them with a quantity above the floor and a
\* non-zero total.
C1_Witness ==
    /\ Cardinality(gastos) = 2
    /\ \E r \in gastos : r.quantidade = 250 /\ r.valor_total = 125000
    /\ \E r \in gastos : r.quantidade = 100 /\ r.valor_unitario = 0

\* C2: a login attempt succeeds if and only if the username is a key of USERS
\* and the digest of the password is the digest stored for it; an unknown
\* username fails whatever the password.
C2_CheckLogin ==
    LoginAttempted =>
        /\ authenticated <=> Accepted(username, password)
        /\ username \notin DOMAIN USERS => ~authenticated

\* A known user has logged in with their own password.
C2_Witness ==
    LoginAttempted /\ username = "admin" /\ password = "1234" /\ authenticated

\* C3: the full scan returns one record per submission, identical submissions
\* included, by ascending id, which is the order of submission.
C3_AllInOrder ==
    LET all == read_sql(gastos)
    IN  /\ Len(all) = Len(log)
        /\ \A i \in DOMAIN all : \A c \in DOMAIN log[i] : all[i][c] = log[i][c]
        /\ \A i, j \in DOMAIN all : i < j => all[i].id < all[j].id

\* The same form has been submitted twice.
C3_Witness == Len(log) = 2 /\ log[1] = log[2] /\ Cardinality(gastos) = 2

\* C4: the table only grows at its end: the scan before a step is a prefix of
\* the scan after it, and a run of dashboard() or a logout changes nothing.
C4_AppendOnly ==
    [][ /\ IsPrefix(read_sql(gastos), read_sql(gastos'))
        /\ (view' = "dashboard" \/ trigger'.value = "Sair") => gastos' = gastos
      ]_vars

\* A logout with two records in the table.
C4_Witness == trigger.value = "Sair" /\ Cardinality(gastos) = 2

\* C5: the session starts unauthenticated; the flag turns true only in a run
\* with "Entrar" pressed and credentials check_login accepts; an attempt it
\* rejects leaves the flag false and shows the error.
C5_LoginOnly ==
    /\ authenticated = FALSE
    /\ [][ /\ (~authenticated /\ authenticated') =>
                  (trigger'.widget = "Entrar" /\ check_login(username', password'))
           /\ (~authenticated /\ trigger'.widget = "Entrar"
                  /\ ~check_login(username', password')) =>
                  (~authenticated' /\ message' = "error" /\ view' = "login")
         ]_vars

\* A rejected attempt by a known user with another user's password.
C5_Witness ==
    /\ LoginAttempted /\ ~authenticated /\ message = "error"
    /\ username = "admin" /\ password = "senha"

\* C6: choosing "Sair" while authenticated clears the flag and the page that
\* results is the login page; from then on the flag stays false through every
\* run that is not an accepted login.
C6_Logout ==
    [][ /\ (authenticated /\ trigger'.value = "Sair") =>
               (~authenticated' /\ view' = "login" /\ dash' = NoDash)
        /\ (~authenticated /\ ~(trigger'.widget = "Entrar"
                                 /\ Accepted(username', password'))) =>
               (~authenticated' /\ view' = "login")
      ]_vars

\* The login page right after a logout.
C6_Witness ==
    trigger.value = "Sair" /\ ~authenticated /\ view = "login" /\ gastos # {}

\* C7: over a non-empty table the dashboard shows one total per category
\* present, each the sum of valor_total of that category's records, and the
\* totals add up to the sum of valor_total of all records.
C7_ByCategory ==
    DashboardShown =>
        /\ dash.exc = "none"
        /\ "bar_chart" \in dash.elements
        /\ DOMAIN dash.gastos_categoria = { r.categoria : r \in gastos }
        /\ \A k \in DOMAIN dash.gastos_categoria :
               dash.gastos_categoria[k] = TotalOf(gastos, LAMBDA r : r.categoria = k)
        /\ SumOver(DOMAIN dash.gastos_categoria, dash.gastos_categoria)
               = TotalOf(gastos, LAMBDA r : TRUE)

\* C8: over a non-empty table the dashboard shows one point per distinct
\* date, each the sum of valor_total of the records of that date.
C8_ByDate ==
    DashboardShown =>
        /\ dash.exc = "none"
        /\ "line_chart" \in dash.elements
        /\ DOMAIN dash.gastos_dia = { to_datetime(r.data) : r \in gastos }
        /\ \A d \in DOMAIN dash.gastos_dia :
               dash.gastos_dia[d] = TotalOf(gastos, LAMBDA r : to_datetime(r.data) = d)

\* C9: over a non-empty table the dashboard offers a sheet with one data row
\* per record and the nine fields of the data model as its columns.
C9_Export ==
    DashboardShown =>
        /\ "download_button" \in dash.elements
        /\ Len(dash.xlsx.rows) = Cardinality(gastos)
        /\ Range(dash.xlsx.header) = Range(TableColumns) \ {"id"}

\* C10: a run reaches the form or the dashboard, inserts a row or shows the
\* records only if the flag is true when it starts; while the flag is false
\* the page is the login page and shows no record.
C10_Gated ==
    /\ [](~authenticated => (view = "login" /\ dash = NoDash))
    /\ [][ (\/ view' \in {"register", "dashboard"}
            \/ gastos' # gastos
            \/ dash' # NoDash) => authenticated
         ]_vars

\* An authenticated session looking at the stored records.
C10_Witness ==
    authenticated /\ view = "dashboard" /\ "dataframe" \in dash.elements
        /\ Cardinality(gastos) = 2

====
